---- MODULE Spec2Model ----
(***************************************************************************)
(* cRandom: a uniform source (struct cRandom, dSFMT backed) and thirteen   *)
(* distribution functions built on it (crandom.c).                         *)
(*                                                                         *)
(* A C double is modelled as a fixed-point integer: the double x is the    *)
(* integer x * FP, with three extra values for +inf, -inf and NaN.  A C    *)
(* int is an integer of IntBits bits.  The draws of a source lie on the    *)
(* grid k/K, k = 0..K-1, the image of the engine's doubles in [1,2).       *)
(***************************************************************************)
EXTENDS Integers, Sequences, FiniteSets

(***************************************************************************)
(* Bounds of the model.                                                    *)
(***************************************************************************)
FracBits == 10
MantBits == 3
IntBits == 5
MaxN == 2
Period == 2
ScriptLen == 1

(***************************************************************************)
(* double                                                                  *)
(***************************************************************************)
FP == 2^FracBits
K == 2^MantBits
Ulp == FP \div K
FMax == 2^20 - 1
PInf == FMax + 1
NInf == -(FMax + 1)
NaN == FMax + 2

IsNaN(a) == a = NaN
IsInf(a) == a = PInf \/ a = NInf
IsFin(a) == ~IsNaN(a) /\ ~IsInf(a)
Abs(x) == IF x < 0 THEN -x ELSE x
Sgn(x) == IF x < 0 THEN -1 ELSE IF x > 0 THEN 1 ELSE 0
Sat(x) == IF x > FMax THEN PInf ELSE IF x < -FMax THEN NInf ELSE x
RDiv(a, b) == IF a >= 0 THEN (a + b \div 2) \div b ELSE -((-a + b \div 2) \div b)
TDiv(a, b) == Sgn(a) * Sgn(b) * (Abs(a) \div Abs(b))

FNeg(a) == IF IsNaN(a) THEN NaN ELSE -a

FAdd(a, b) ==
  IF IsNaN(a) \/ IsNaN(b) THEN NaN
  ELSE IF IsInf(a) /\ IsInf(b) THEN (IF a = b THEN a ELSE NaN)
  ELSE IF IsInf(a) THEN a
  ELSE IF IsInf(b) THEN b
  ELSE Sat(a + b)

FSub(a, b) == FAdd(a, FNeg(b))

MulAbs(x, y) == x * (y \div FP) + (x * (y % FP) + FP \div 2) \div FP

FMul(a, b) ==
  IF IsNaN(a) \/ IsNaN(b) THEN NaN
  ELSE IF IsInf(a) \/ IsInf(b)
       THEN (IF a = 0 \/ b = 0 THEN NaN
             ELSE IF Sgn(a) * Sgn(b) > 0 THEN PInf ELSE NInf)
  ELSE Sat(Sgn(a) * Sgn(b) * MulAbs(Abs(a), Abs(b)))

FDiv(a, b) ==
  IF IsNaN(a) \/ IsNaN(b) THEN NaN
  ELSE IF IsInf(a)
       THEN (IF IsInf(b) THEN NaN
             ELSE IF Sgn(a) * (IF b < 0 THEN -1 ELSE 1) > 0 THEN PInf ELSE NInf)
  ELSE IF IsInf(b) THEN 0
  ELSE IF b = 0
       THEN (IF a = 0 THEN NaN ELSE IF a > 0 THEN PInf ELSE NInf)
  ELSE Sat(Sgn(a) * Sgn(b) * ((Abs(a) * FP) \div Abs(b)))

FLt(a, b) == ~IsNaN(a) /\ ~IsNaN(b) /\ a < b
FGt(a, b) == FLt(b, a)

(***************************************************************************)
(* <math.h>: log, sqrt, exp, floor on the fixed-point doubles.             *)
(***************************************************************************)
Ln2 == (FP * 693147) \div 1000000
LogGuard == 64 * FP

RECURSIVE LogNorm(_, _)
LogNorm(x, e) ==
  IF 4 * x < 3 * FP THEN LogNorm(2 * x, e - 1)
  ELSE IF 2 * x >= 3 * FP THEN LogNorm(RDiv(x, 2), e + 1)
  ELSE <<x, e>>

LogSeries(m) ==
  LET y  == RDiv((m - FP) * LogGuard, m + FP)
      y2 == RDiv(y * y, LogGuard)
      t3 == RDiv(y * y2, LogGuard)
      t5 == RDiv(t3 * y2, LogGuard)
      t7 == RDiv(t5 * y2, LogGuard)
  IN RDiv(2 * (y + RDiv(t3, 3) + RDiv(t5, 5) + RDiv(t7, 7)), 64)

LogFinite(a) == LET me == LogNorm(a, 0) IN me[2] * Ln2 + LogSeries(me[1])

\* log on (0, 1], where the library takes its logarithms, worked out once
LogUnit == [a \in 1..FP |-> LogFinite(a)]

log(a) ==
  IF IsNaN(a) \/ a < 0 THEN NaN
  ELSE IF a = 0 THEN NInf
  ELSE IF a = PInf THEN PInf
  ELSE IF a <= FP THEN LogUnit[a]
  ELSE LogFinite(a)

RECURSIVE ISqrt(_, _, _)
ISqrt(x, lo, hi) ==
  IF lo >= hi THEN lo
  ELSE LET mid == (lo + hi + 1) \div 2
       IN IF mid * mid <= x THEN ISqrt(x, mid, hi) ELSE ISqrt(x, lo, mid - 1)

sqrt(a) ==
  IF IsNaN(a) \/ a < 0 THEN NaN
  ELSE IF a = PInf THEN PInf
  ELSE ISqrt(a * FP, 0, 46340)

ExpSeries(r) ==
  LET r2 == RDiv(r * r, FP)
      r3 == RDiv(r2 * r, FP)
      r4 == RDiv(r3 * r, FP)
  IN FP + r + RDiv(r2, 2) + RDiv(r3, 6) + RDiv(r4, 24)

exp(a) ==
  IF IsNaN(a) THEN NaN
  ELSE IF a = PInf \/ a > 10 * Ln2 THEN PInf
  ELSE IF a = NInf \/ a < -(FracBits + 2) * Ln2 THEN 0
  ELSE LET k == RDiv(a, Ln2)
           er == ExpSeries(a - k * Ln2)
       IN IF k >= 0 THEN Sat(er * 2^k) ELSE RDiv(er, 2^(-k))

floor(a) == IF IsFin(a) THEN (a \div FP) * FP ELSE a

(***************************************************************************)
(* int                                                                     *)
(***************************************************************************)
IntMax == 2^(IntBits - 1) - 1
IntMin == -(2^(IntBits - 1))
IntRange == IntMin..IntMax
Wrap(x) == ((x - IntMin) % 2^IntBits) + IntMin

TrapV == IntMax + 1
UB == {"wrap", "trap"}

\* The value of an int expression whose mathematical value is x.  Signed
\* overflow is undefined: the build either wraps or traps.
IntOp(x, ub) ==
  IF x \in IntRange THEN x ELSE IF ub = "wrap" THEN Wrap(x) ELSE TrapV

IntAdd(a, b, ub) == IF a = TrapV \/ b = TrapV THEN TrapV ELSE IntOp(a + b, ub)
IntSub(a, b, ub) == IF a = TrapV \/ b = TrapV THEN TrapV ELSE IntOp(a - b, ub)

\* (double) i
IntToF(i) == i * FP

\* (int) v: truncation toward zero; undefined when the value does not fit
\* (the wrapping build yields the "integer indefinite" value INT_MIN).
IntCast(v, ub) ==
  IF IsFin(v) /\ TDiv(v, FP) \in IntRange THEN TDiv(v, FP)
  ELSE IF ub = "wrap" THEN IntMin ELSE TrapV

(***************************************************************************)
(* dSFMT engine (dSFMT.h).  The state block status[] is a function of the  *)
(* generator's key; dsfmt_gen_rand_all and the two initialisers live in    *)
(* dSFMT.c and are modelled as a deterministic black box of period Period. *)
(***************************************************************************)
DSFMT_MEXP == 19937
DSFMT_N == (DSFMT_MEXP - 128) \div 104 + 1
DSFMT_N64 == DSFMT_N * 2

\* psfmt64[i]: a double in [1,2) on the grid 1 + k/K.
psfmt64(d, i) == FP + ((i * (2 * d.key + 1) + 3 * d.key) % K) * Ulp

dsfmt_gen_rand_all(d) == [d EXCEPT !.key = (@ + 1) % Period]

dsfmt_init_gen_rand(seed) ==
  [key |-> (seed % 2^IntBits) % Period, idx |-> DSFMT_N64]

RECURSIVE KeySum(_)
KeySum(key) == IF key = <<>> THEN 0 ELSE (Head(key) % 2^IntBits) + KeySum(Tail(key))

dsfmt_init_by_array(init_key, key_length) ==
  [key |-> (KeySum(SubSeq(init_key, 1, key_length)) + key_length) % Period,
   idx |-> DSFMT_N64]

\* r = psfmt64[dsfmt->idx++]
dsfmt_read(d) == [r |-> psfmt64(d, d.idx), d |-> [d EXCEPT !.idx = @ + 1]]

dsfmt_genrand_close1_open2(d) ==
  IF d.idx >= DSFMT_N64
  THEN dsfmt_read([dsfmt_gen_rand_all(d) EXCEPT !.idx = 0])
  ELSE dsfmt_read(d)

\* the (0,1] variant of dSFMT.h, 2.0 - r
dsfmt_genrand_open_close(d) ==
  [r |-> FSub(2 * FP, dsfmt_genrand_close1_open2(d).r),
   d |-> dsfmt_genrand_close1_open2(d).d]

dsfmt_minus1(g) == [r |-> FSub(g.r, FP), d |-> g.d]

dsfmt_genrand_close_open(d) == dsfmt_minus1(dsfmt_genrand_close1_open2(d))

(***************************************************************************)
(* struct cRandom: an object with a next and a release function pointer.   *)
(* The dSFMT backed object holds the engine state; an object supplied by   *)
(* the caller replays a fixed script of draws in [0,1), cyclically.        *)
(***************************************************************************)
NoEngine == [key |-> 0, idx |-> 0]
NoObject == [next |-> "none", release |-> "none", dsfmt |-> NoEngine,
             script |-> <<>>, cur |-> 0]

dSFMTRandomOn(random, g) == [x |-> g.r, c |-> [random EXCEPT !.dsfmt = g.d]]

dSFMTRandomNext(that) == dSFMTRandomOn(that, dsfmt_genrand_close_open(that.dsfmt))

scriptedNext(that) ==
  [x |-> that.script[that.cur + 1],
   c |-> [that EXCEPT !.cur = (@ + 1) % Len(that.script)]]

\* crandom->next(crandom)
cnext(crandom) ==
  IF crandom.next = "dSFMTRandomNext" THEN dSFMTRandomNext(crandom)
  ELSE scriptedNext(crandom)

\* k successive calls of crandom->next(crandom): the draws and the source after
RECURSIVE drawn(_, _, _)
drawn(crandom, k, us) ==
  IF k <= 0 THEN [c |-> crandom, us |-> us]
  ELSE LET d == cnext(crandom) IN drawn(d.c, k - 1, Append(us, d.x))

(***************************************************************************)
(* Outcome of a call: a returned sample, an assertion abort, or a trap.    *)
(* us lists the draws the call took, in the order it took them.            *)
(***************************************************************************)
Ret(v, c, us) == [st |-> "ret", v |-> v, c |-> c, us |-> us]
Abort(c) == [st |-> "abort", v |-> 0, c |-> c, us |-> <<>>]
RetInt(v, c, us) ==
  IF v = TrapV THEN [st |-> "trap", v |-> 0, c |-> c, us |-> us] ELSE Ret(v, c, us)

(***************************************************************************)
(* With finite support                                                     *)
(***************************************************************************)
bernoulliOnOrEqual(d, p) == Ret(IF ~FLt(d.x, p) THEN 1 ELSE 0, d.c, <<d.x>>)

bernoulliOn(d, p) == Ret(IF FGt(d.x, p) THEN 1 ELSE 0, d.c, <<d.x>>)

bernoulli(crandom, p) ==
  IF ~(FLt(0, p) /\ FLt(p, FP)) THEN Abort(crandom)
  ELSE bernoulliOn(cnext(crandom), p)

RECURSIVE binomialLoop(_, _, _, _, _, _)
binomialOn(d, i, n, p, x, us) ==
  binomialLoop(d.c, i + 1, n, p,
               IntAdd(x, IF FGt(d.x, p) THEN 1 ELSE 0, "wrap"), Append(us, d.x))

binomialLoop(crandom, i, n, p, x, us) ==
  IF ~(i < n) THEN RetInt(x, crandom, us)
  ELSE binomialOn(cnext(crandom), i, n, p, x, us)

binomial(crandom, n, p) ==
  IF ~(0 < n) THEN Abort(crandom)
  ELSE IF ~(FLt(0, p) /\ FLt(p, FP)) THEN Abort(crandom)
  ELSE binomialLoop(crandom, 0, n, p, 0, <<>>)

\* (int) (w * u), w = b - a + 1 an int
IntScale(w, u, ub) == IF w = TrapV THEN TrapV ELSE IntCast(FMul(IntToF(w), u), ub)

equilikelyOn(d, a, b, ub) ==
  RetInt(IntAdd(a, IntScale(IntAdd(IntSub(b, a, ub), 1, ub), d.x, ub), ub),
         d.c, <<d.x>>)

equilikely(crandom, a, b, ub) ==
  IF ~(a < b) THEN Abort(crandom)
  ELSE equilikelyOn(cnext(crandom), a, b, ub)

geometricOn(d, p, ub) ==
  RetInt(IntCast(FDiv(log(FSub(FP, d.x)), log(p)), ub), d.c, <<d.x>>)

geometric(crandom, p, ub) ==
  IF ~(FLt(0, p) /\ FLt(p, FP)) THEN Abort(crandom)
  ELSE geometricOn(cnext(crandom), p, ub)

RECURSIVE pascalLoop(_, _, _, _, _, _, _)
pascalOn(d, i, n, log_p, x, us, ub) ==
  pascalLoop(d.c, i + 1, n, log_p,
             IntAdd(x, IntCast(FDiv(log(FSub(FP, d.x)), log_p), ub), ub),
             Append(us, d.x), ub)

pascalLoop(crandom, i, n, log_p, x, us, ub) ==
  IF ~(i < n) THEN RetInt(x, crandom, us)
  ELSE pascalOn(cnext(crandom), i, n, log_p, x, us, ub)

\* pascal with a loop that starts at i = 1
pascalOneShort(crandom, n, p, ub) ==
  LET log_p == log(p)
  IN IF ~(0 < n) THEN Abort(crandom)
     ELSE IF ~(FLt(0, p) /\ FLt(p, FP)) THEN Abort(crandom)
     ELSE pascalLoop(crandom, 1, n, log_p, 0, <<>>, ub)

pascal(crandom, n, p, ub) ==
  LET log_p == log(p)
  IN IF ~(0 < n) THEN Abort(crandom)
     ELSE IF ~(FLt(0, p) /\ FLt(p, FP)) THEN Abort(crandom)
     ELSE pascalLoop(crandom, 0, n, log_p, 0, <<>>, ub)

(***************************************************************************)
(* With infinite support                                                   *)
(***************************************************************************)
uniformOn(d, a, b) == Ret(FAdd(a, FMul(FSub(b, a), d.x)), d.c, <<d.x>>)

uniform(crandom, a, b) ==
  IF ~FLt(a, b) THEN Abort(crandom)
  ELSE uniformOn(cnext(crandom), a, b)

exponentialOn(d, m) == Ret(FMul(FNeg(m), log(FSub(FP, d.x))), d.c, <<d.x>>)

exponential(crandom, m) ==
  IF ~FLt(0, m) THEN Abort(crandom)
  ELSE exponentialOn(cnext(crandom), m)

RECURSIVE erlangLoop(_, _, _, _, _, _)
erlangOn(d, i, n, b, x, us) ==
  erlangLoop(d.c, i + 1, n, b, FSub(x, FMul(b, log(FSub(FP, d.x)))), Append(us, d.x))

erlangLoop(crandom, i, n, b, x, us) ==
  IF ~(i < n) THEN Ret(x, crandom, us)
  ELSE erlangOn(cnext(crandom), i, n, b, x, us)

erlang(crandom, n, b) ==
  IF ~(0 < n) THEN Abort(crandom)
  ELSE IF ~FLt(0, b) THEN Abort(crandom)
  ELSE erlangLoop(crandom, 0, n, b, 0, <<>>)

\* Odeh & Evans coefficients, in units of 1/FP.
p0 == RDiv(FP * 322232, 1000000)
p1 == FP
p2 == RDiv(FP * 342242, 1000000)
p3 == RDiv(FP * 20423, 1000000)
p4 == RDiv(FP * 45, 1000000)
q0 == RDiv(FP * 99348, 1000000)
q1 == RDiv(FP * 588582, 1000000)
q2 == RDiv(FP * 531103, 1000000)
q3 == RDiv(FP * 103538, 1000000)
q4 == RDiv(FP * 3856, 1000000)

Horner(t, c0, c1, c2, c3, c4) ==
  FAdd(c0, FMul(t, FAdd(c1, FMul(t, FAdd(c2, FMul(t, FAdd(c3, FMul(t, c4))))))))

\* the argument of normal's log: u in the lower branch, 1.0 - u in the upper
normalLogArg(u) == IF FLt(u, FP \div 2) THEN u ELSE FSub(FP, u)

normalT(u) == sqrt(FMul(-2 * FP, log(normalLogArg(u))))

normalPQ(t) == FDiv(Horner(t, p0, p1, p2, p3, p4), Horner(t, q0, q1, q2, q3, q4))

normalZ(u, t) ==
  IF FLt(u, FP \div 2) THEN FSub(normalPQ(t), t) ELSE FSub(t, normalPQ(t))

normalOn(d, m, s) == Ret(FAdd(m, FMul(s, normalZ(d.x, normalT(d.x)))), d.c, <<d.x>>)

normal(crandom, m, s) ==
  IF ~FLt(0, s) THEN Abort(crandom)
  ELSE normalOn(cnext(crandom), m, s)

lognormalOn(r, a, b) == Ret(exp(FAdd(a, FMul(b, r.v))), r.c, r.us)

lognormal(crandom, a, b) ==
  IF ~FLt(0, b) THEN Abort(crandom)
  ELSE lognormalOn(normal(crandom, 0, FP), a, b)

RECURSIVE chisquareLoop(_, _, _, _, _)
chisquareOn(z, i, n, x, us) ==
  chisquareLoop(z.c, i + 1, n, FAdd(x, FMul(z.v, z.v)), us \o z.us)

chisquareLoop(crandom, i, n, x, us) ==
  IF ~(i < n) THEN Ret(x, crandom, us)
  ELSE chisquareOn(normal(crandom, 0, FP), i, n, x, us)

\* chisquare with a loop that runs for i = 0..n
chisquareInclusive(crandom, n) ==
  IF ~(0 < n) THEN Abort(crandom)
  ELSE chisquareLoop(crandom, -1, n, 0, <<>>)

chisquare(crandom, n) ==
  IF ~(0 < n) THEN Abort(crandom)
  ELSE chisquareLoop(crandom, 0, n, 0, <<>>)

\* normal(...) / sqrt(chisquare(...) / n): C leaves the order in which the two
\* operands of / are evaluated unspecified; order names the one taken.
Orders == {"normal_first", "chisquare_first"}

studentQuot(z, x, n, c, us) == Ret(FDiv(z.v, sqrt(FDiv(x.v, IntToF(n)))), c, us)

studentNormalFirst(z, x, n) == studentQuot(z, x, n, x.c, z.us \o x.us)
studentChisquareFirst(x, z, n) == studentQuot(z, x, n, z.c, x.us \o z.us)
studentAfterNormal(z, n) == studentNormalFirst(z, chisquare(z.c, n), n)
studentAfterChisquare(x, n) == studentChisquareFirst(x, normal(x.c, 0, FP), n)

\* student without its own assert: chisquare's assert is the first to look at n
studentUnchecked(crandom, n, order) ==
  IF 0 < n
  THEN (IF order = "normal_first"
        THEN studentAfterNormal(normal(crandom, 0, FP), n)
        ELSE studentAfterChisquare(chisquare(crandom, n), n))
  ELSE (IF order = "normal_first"
        THEN Abort(normal(crandom, 0, FP).c)
        ELSE Abort(crandom))

student(crandom, n, order) ==
  IF ~(0 < n) THEN Abort(crandom)
  ELSE IF order = "normal_first"
       THEN studentAfterNormal(normal(crandom, 0, FP), n)
       ELSE studentAfterChisquare(chisquare(crandom, n), n)

(***************************************************************************)
(* Int Poisson(crandom, m): the loop is taken one iteration at a time, for *)
(* it need not end.  loc holds the locals m, t, x and the number n of      *)
(* draws taken; e and eprev accumulate the variates exponential(crandom,   *)
(* 1.0) the comment on the loop body names, after and before the last      *)
(* iteration.  n stops counting at NCap, past what an int can hold.        *)
(***************************************************************************)
NCap == 2^IntBits

NoLoc == [m |-> 0, t |-> 0, x |-> 0, n |-> 0, e |-> 0, eprev |-> 0]

PoissonEnter(m) == [m |-> m, t |-> 0, x |-> -1, n |-> 0, e |-> 0, eprev |-> 0]

\* lg is log(1.0 - next): t -= m * lg; x++
PoissonAdvance(loc, lg, ub) ==
  [m |-> loc.m,
   t |-> FSub(loc.t, FMul(loc.m, lg)),
   x |-> IntAdd(loc.x, 1, ub),
   n |-> IF loc.n < NCap THEN loc.n + 1 ELSE NCap,
   e |-> FAdd(loc.e, FMul(FNeg(FP), lg)),
   eprev |-> loc.e]

PoissonBody(loc, u, ub) ==
  CHOOSE l \in {PoissonAdvance(loc, lg, ub) : lg \in {log(FSub(FP, u))}} : TRUE

(***************************************************************************)
(* Constructors and release.  random is what malloc returned.              *)
(***************************************************************************)
dSFMTRandomNewBySeed(seed, random) ==
  IF random = "NULL" THEN NoObject
  ELSE [next |-> "dSFMTRandomNext", release |-> "free",
        dsfmt |-> dsfmt_init_gen_rand(seed), script |-> <<>>, cur |-> 0]

\* a constructor that leaves release unset
dSFMTRandomNewByArrayNoRelease(array, arrayLength, random) ==
  IF random = "NULL" THEN NoObject
  ELSE [next |-> "dSFMTRandomNext", release |-> "none",
        dsfmt |-> dsfmt_init_by_array(array, arrayLength),
        script |-> <<>>, cur |-> 0]

dSFMTRandomNewByArray(array, arrayLength, random) ==
  IF random = "NULL" THEN NoObject
  ELSE [next |-> "dSFMTRandomNext", release |-> "free",
        dsfmt |-> dsfmt_init_by_array(array, arrayLength),
        script |-> <<>>, cur |-> 0]

\* time(NULL) returned now
dSFMTRandomNew(now, random) == dSFMTRandomNewBySeed(now, random)

\* a struct cRandom the caller implements itself
Scripted(script) ==
  [next |-> "scriptedNext", release |-> "scriptedRelease",
   dsfmt |-> NoEngine, script |-> script, cur |-> 0]

\* free(that): the block malloc returned goes back to the heap
free(heap) == heap \ {"dSFMTRandom"}

\* crandom->release(crandom)
crelease(crandom, heap) == IF crandom.release = "free" THEN free(heap) ELSE heap

(***************************************************************************)
(* A process: the owner of one source.  h is the handle it holds, c the    *)
(* object behind it, heap the blocks malloc has handed out, pc where the   *)
(* owner is (idle between calls, ret with a result in last, poisson inside *)
(* the Poisson loop, dead after abort() or a trap), last the last call.    *)
(***************************************************************************)
NoLast == [fn |-> "none", a |-> <<0, 0>>, st |-> "none", v |-> 0, us |-> <<>>,
           n |-> 0, ref |-> <<0, 0>>, alloc |-> "none", via |-> "none"]

NoProc == [h |-> "none", c |-> NoObject, heap |-> {}, pc |-> "idle",
           loc |-> NoLoc, last |-> NoLast]

NoChoice == [ub |-> "wrap", order |-> "normal_first"]

\* the owner calls crandom->next(crandom) itself
nextOn(d) == Ret(d.x, d.c, <<d.x>>)

Apply(crandom, fn, a, b) ==
  CASE fn = "next" -> nextOn(cnext(crandom))
    [] fn = "bernoulli" -> bernoulli(crandom, a[1])
    [] fn = "binomial" -> binomial(crandom, a[1], a[2])
    [] fn = "equilikely" -> equilikely(crandom, a[1], a[2], b.ub)
    [] fn = "geometric" -> geometric(crandom, a[1], b.ub)
    [] fn = "pascal" -> pascal(crandom, a[1], a[2], b.ub)
    [] fn = "uniform" -> uniform(crandom, a[1], a[2])
    [] fn = "exponential" -> exponential(crandom, a[1])
    [] fn = "erlang" -> erlang(crandom, a[1], a[2])
    [] fn = "normal" -> normal(crandom, a[1], a[2])
    [] fn = "lognormal" -> lognormal(crandom, a[1], a[2])
    [] fn = "chisquare" -> chisquare(crandom, a[1])
    [] fn = "student" -> student(crandom, a[1], b.order)

Outcome(P, fn, a, r) ==
  [P EXCEPT !.c = r.c,
            !.pc = IF r.st = "ret" THEN "ret" ELSE "dead",
            !.last = [fn |-> fn, a |-> a, st |-> r.st, v |-> r.v,
                      us |-> r.us, n |-> Len(r.us), ref |-> <<0, 0>>,
                      alloc |-> "none", via |-> "none"]]

Called(P, fn, a, b) == Outcome(P, fn, a, Apply(P.c, fn, a, b))

(***************************************************************************)
(* What the comments on the loop bodies of binomial, pascal and erlang     *)
(* name: x += fn(crandom, arg), n times, by calls of fn on the one source. *)
(* The sum is an int for bernoulli and geometric, a double for exponential.*)
(***************************************************************************)
RECURSIVE compoundLoop(_, _, _, _, _, _, _, _)
compoundLoop(fn, crandom, i, n, arg, x, us, b) ==
  IF ~(i < n)
  THEN (IF fn = "exponential" THEN Ret(x, crandom, us) ELSE RetInt(x, crandom, us))
  ELSE LET r == Apply(crandom, fn, <<arg, 0>>, b)
       IN IF r.st # "ret" THEN [r EXCEPT !.us = us \o r.us]
          ELSE compoundLoop(fn, r.c, i + 1, n, arg,
                            IF fn = "exponential" THEN FAdd(x, r.v)
                            ELSE IntAdd(x, r.v, b.ub),
                            us \o r.us, b)

PoissonCalled(P, m) ==
  IF ~FLt(0, m)
  THEN [P EXCEPT !.pc = "dead",
                 !.last = [NoLast EXCEPT !.fn = "Poisson", !.a = <<m, 0>>,
                                         !.st = "abort"]]
  ELSE [P EXCEPT !.pc = "poisson", !.loc = PoissonEnter(m),
                 !.last = [NoLast EXCEPT !.fn = "Poisson", !.a = <<m, 0>>]]

PoissonIterated(P, c, l) ==
  IF l.x = TrapV
  THEN [P EXCEPT !.c = c, !.pc = "dead", !.loc = NoLoc,
                 !.last = [@ EXCEPT !.st = "trap", !.n = l.n]]
  ELSE [P EXCEPT !.c = c, !.loc = l]

PoissonDrawn(P, d, ub) == PoissonIterated(P, d.c, PoissonBody(P.loc, d.x, ub))

PoissonStepped(P, ub) ==
  IF FLt(P.loc.t, P.loc.m)
  THEN CHOOSE Q \in {PoissonDrawn(P, d, ub) : d \in {cnext(P.c)}} : TRUE
  ELSE [P EXCEPT !.pc = "ret", !.loc = NoLoc,
                 !.last = [@ EXCEPT !.st = "ret", !.v = P.loc.x, !.n = P.loc.n,
                                    !.ref = <<P.loc.eprev, P.loc.e>>]]

Constructed(P, fn, a, obj, random) ==
  [P EXCEPT !.h = IF obj = NoObject THEN "null" ELSE "live",
            !.c = obj,
            !.heap = IF random = "NULL" THEN @ ELSE @ \cup {random},
            !.pc = "ret",
            !.last = [NoLast EXCEPT !.fn = fn, !.a = a, !.st = "ret",
                                    !.v = IF obj = NoObject THEN 0 ELSE 1,
                                    !.alloc = random]]

Released(P) ==
  [P EXCEPT !.h = "freed", !.c = NoObject,
            !.heap = crelease(P.c, P.heap),
            !.pc = "ret",
            !.last = [NoLast EXCEPT !.fn = "release", !.via = P.c.release,
                                    !.st = "ret"]]

Consumed(P) == [P EXCEPT !.pc = "idle", !.last = NoLast]

(***************************************************************************)
(* The demo (test.c): x = normal(crandom, 0, 1) is clamped to [A, B] and   *)
(* counted in histogram[(size_t) floor(N * (x - A) / (B - A))].  The       *)
(* operator gives the indices a build can produce: the conversion of a NaN *)
(* to size_t is undefined, and yields 0 or the out-of-range value 2^63 on  *)
(* the common targets (held here as 2^30).  For a finite x the quotient    *)
(* N * (x - A) / (B - A) lies in [0, N], far inside the range of a double. *)
(***************************************************************************)
N == 1000
A == -5
B == 5

histogramClamp(x) ==
  IF FLt(x, IntToF(A)) THEN IntToF(A)
  ELSE IF FLt(IntToF(B), x) THEN IntToF(B)
  ELSE x

histogramIndexes(x) ==
  IF IsFin(histogramClamp(x))
  THEN {floor((N * (histogramClamp(x) - IntToF(A))) \div (B - A)) \div FP}
  ELSE {0, 2^30}

(***************************************************************************)
(* Inputs                                                                  *)
(***************************************************************************)
Grid == {k * Ulp : k \in 0..(K - 1)}
Seeds == -1..Period
Arrays == UNION {[1..l -> 0..1] : l \in 0..2}
Mallocs == {"NULL", "dSFMTRandom"}
PSet == {0, 1, FP \div 4, FP \div 2, FP - 1, FP}
PSetN == {0, FP \div 4, FP \div 2}
NSet == -1..MaxN
ABSet == {IntMin, -1, 0, 2, IntMax}
MSet == {-FP, 0, FP \div 2, FP, 2 * FP}
BSet == {0, FP \div 2, FP}
RealPairs == {<<0, FP>>, <<-FP, FP>>, <<FP, FP \div 2>>, <<FP, FP>>, <<0, 0>>, <<0, -FP>>}

VARIABLES proc, twin
vars == <<proc, twin>>

(***************************************************************************)
(* Spec: one owner, one source.                                            *)
(***************************************************************************)
Init == proc = NoProc /\ twin = NoProc

CanConstruct == proc.pc = "idle" /\ proc.h \in {"none", "null", "freed"}
CanCall == proc.pc = "idle" /\ proc.h = "live"

NewBySeed ==
  /\ CanConstruct
  /\ \E seed \in Seeds, random \in Mallocs :
       proc' = Constructed(proc, "dSFMTRandomNewBySeed", <<seed, 0>>,
                           dSFMTRandomNewBySeed(seed, random), random)
  /\ UNCHANGED twin

NewByArray ==
  /\ CanConstruct
  /\ \E array \in Arrays, random \in Mallocs :
       proc' = Constructed(proc, "dSFMTRandomNewByArray", <<Len(array), 0>>,
                           dSFMTRandomNewByArray(array, Len(array), random), random)
  /\ UNCHANGED twin

New ==
  /\ CanConstruct
  /\ \E now \in Seeds, random \in Mallocs :
       proc' = Constructed(proc, "dSFMTRandomNew", <<now, 0>>,
                           dSFMTRandomNew(now, random), random)
  /\ UNCHANGED twin

Attach ==
  /\ CanConstruct
  /\ \E script \in [1..ScriptLen -> Grid] :
       proc' = [proc EXCEPT !.h = "live", !.c = Scripted(script)]
  /\ UNCHANGED twin

Release ==
  /\ CanCall
  /\ proc' = Released(proc)
  /\ UNCHANGED twin

Consume ==
  /\ proc.pc = "ret"
  /\ proc' = Consumed(proc)
  /\ UNCHANGED twin

CallNext ==
  /\ CanCall
  /\ proc' = Called(proc, "next", <<0, 0>>, NoChoice)
  /\ UNCHANGED twin

Bernoulli ==
  /\ CanCall
  /\ \E p \in PSet :
       proc' = Called(proc, "bernoulli", <<p, 0>>, NoChoice)
  /\ UNCHANGED twin

Binomial ==
  /\ CanCall
  /\ \E n \in NSet, p \in PSetN :
       proc' = Called(proc, "binomial", <<n, p>>, NoChoice)
  /\ UNCHANGED twin

Equilikely ==
  /\ CanCall
  /\ \E a \in ABSet, b \in ABSet, ub \in UB :
       proc' = Called(proc, "equilikely", <<a, b>>, [NoChoice EXCEPT !.ub = ub])
  /\ UNCHANGED twin

Geometric ==
  /\ CanCall
  /\ \E p \in PSet, ub \in UB :
       proc' = Called(proc, "geometric", <<p, 0>>, [NoChoice EXCEPT !.ub = ub])
  /\ UNCHANGED twin

Pascal ==
  /\ CanCall
  /\ \E n \in NSet, p \in PSetN, ub \in UB :
       proc' = Called(proc, "pascal", <<n, p>>, [NoChoice EXCEPT !.ub = ub])
  /\ UNCHANGED twin

Uniform ==
  /\ CanCall
  /\ \E ab \in RealPairs :
       proc' = Called(proc, "uniform", ab, NoChoice)
  /\ UNCHANGED twin

Exponential ==
  /\ CanCall
  /\ \E m \in MSet :
       proc' = Called(proc, "exponential", <<m, 0>>, NoChoice)
  /\ UNCHANGED twin

Erlang ==
  /\ CanCall
  /\ \E n \in NSet, b \in BSet :
       proc' = Called(proc, "erlang", <<n, b>>, NoChoice)
  /\ UNCHANGED twin

Normal ==
  /\ CanCall
  /\ \E ms \in RealPairs :
       proc' = Called(proc, "normal", ms, NoChoice)
  /\ UNCHANGED twin

Lognormal ==
  /\ CanCall
  /\ \E ab \in RealPairs :
       proc' = Called(proc, "lognormal", ab, NoChoice)
  /\ UNCHANGED twin

Chisquare ==
  /\ CanCall
  /\ \E n \in NSet :
       proc' = Called(proc, "chisquare", <<n, 0>>, NoChoice)
  /\ UNCHANGED twin

Student ==
  /\ CanCall
  /\ \E n \in NSet, order \in Orders :
       proc' = Called(proc, "student", <<n, 0>>, [NoChoice EXCEPT !.order = order])
  /\ UNCHANGED twin

PoissonCall ==
  /\ CanCall
  /\ \E m \in MSet : proc' = PoissonCalled(proc, m)
  /\ UNCHANGED twin

PoissonIter ==
  /\ proc.pc = "poisson"
  /\ FLt(proc.loc.t, proc.loc.m)
  /\ \E ub \in UB : proc' = PoissonStepped(proc, ub)
  /\ UNCHANGED twin

PoissonReturn ==
  /\ proc.pc = "poisson"
  /\ ~FLt(proc.loc.t, proc.loc.m)
  /\ proc' = PoissonStepped(proc, "wrap")
  /\ UNCHANGED twin

Next ==
  \/ NewBySeed \/ NewByArray \/ New \/ Attach \/ Release \/ Consume
  \/ CallNext
  \/ Bernoulli \/ Binomial \/ Equilikely \/ Geometric \/ Pascal
  \/ PoissonCall \/ PoissonIter \/ PoissonReturn
  \/ Uniform \/ Exponential \/ Erlang \/ Normal \/ Lognormal
  \/ Chisquare \/ Student

Spec == Init /\ [][Next]_vars

Fresh(obj) == [NoProc EXCEPT !.h = "live", !.c = obj, !.heap = {"dSFMTRandom"}]

(***************************************************************************)
(* FairSpec: the calls of Poisson on a source the caller supplies.  The    *)
(* program runs on: a step of the loop that can be taken is taken.         *)
(***************************************************************************)
PoissonInit ==
  /\ twin = NoProc
  /\ \E script \in [1..ScriptLen -> Grid] :
       proc = [NoProc EXCEPT !.h = "live", !.c = Scripted(script)]

PoissonNext == PoissonCall \/ PoissonIter \/ PoissonReturn \/ Consume

FairSpec == PoissonInit /\ [][PoissonNext]_vars /\ WF_vars(PoissonNext)

(***************************************************************************)
(* PairSpec: two sources built from the same seed (or key array), in two   *)
(* runs of the program on one platform, are given the same calls.  Each    *)
(* run evaluates the operands of student's division in an order of its own.*)
(***************************************************************************)
PairInit ==
  \E obj \in {dSFMTRandomNewBySeed(seed, "dSFMTRandom") : seed \in Seeds}
              \cup {dSFMTRandomNewByArray(array, Len(array), "dSFMTRandom") :
                     array \in Arrays} :
    proc = Fresh(obj) /\ twin = Fresh(obj)

BothCanCall == proc.pc = "idle" /\ twin.pc = "idle"

\* The distribution functions of crandom.h.
Distributions ==
  {"bernoulli", "binomial", "equilikely", "geometric", "pascal", "Poisson",
   "uniform", "exponential", "erlang", "normal", "lognormal", "chisquare",
   "student"}

\* the parameters a call of fn is tried with
Params(fn) ==
  CASE fn = "next" -> {<<0, 0>>}
    [] fn \in {"bernoulli", "geometric"} -> {<<p, 0>> : p \in PSet}
    [] fn \in {"binomial", "pascal"} -> NSet \X PSetN
    [] fn = "equilikely" -> ABSet \X ABSet
    [] fn \in {"uniform", "normal", "lognormal"} -> RealPairs
    [] fn = "exponential" -> {<<m, 0>> : m \in MSet}
    [] fn = "erlang" -> NSet \X BSet
    [] fn \in {"chisquare", "student"} -> {<<n, 0>> : n \in NSet}

\* One platform, so one outcome of an int overflow in both runs; the order of
\* student's operands is each run's own.
ChoicePairs(fn) ==
  IF fn = "student"
  THEN {<<[NoChoice EXCEPT !.order = o1], [NoChoice EXCEPT !.order = o2]>> :
          o1 \in Orders, o2 \in Orders}
  ELSE IF fn \in {"equilikely", "geometric", "pascal"}
  THEN {<<[NoChoice EXCEPT !.ub = ub], [NoChoice EXCEPT !.ub = ub]>> : ub \in UB}
  ELSE {<<NoChoice, NoChoice>>}

BothCall ==
  /\ BothCanCall
  /\ \E fn \in {"next"} \cup (Distributions \ {"Poisson"}) :
       \E a \in Params(fn), b \in ChoicePairs(fn) :
         /\ proc' = Called(proc, fn, a, b[1])
         /\ twin' = Called(twin, fn, a, b[2])

BothPoissonCall ==
  /\ BothCanCall
  /\ \E m \in MSet :
       /\ proc' = PoissonCalled(proc, m)
       /\ twin' = PoissonCalled(twin, m)

BothPoissonStep ==
  /\ proc.pc = "poisson" \/ twin.pc = "poisson"
  /\ \E ub \in UB :
       /\ proc' = IF proc.pc = "poisson" THEN PoissonStepped(proc, ub) ELSE proc
       /\ twin' = IF twin.pc = "poisson" THEN PoissonStepped(twin, ub) ELSE twin

BothConsume ==
  /\ proc.pc = "ret" /\ twin.pc = "ret"
  /\ proc' = Consumed(proc)
  /\ twin' = Consumed(twin)

PairNext == BothCall \/ BothPoissonCall \/ BothPoissonStep \/ BothConsume

PairSpec == PairInit /\ [][PairNext]_vars

(***************************************************************************)
(* Claims                                                                  *)
(***************************************************************************)
Returned(fn) == proc.pc = "ret" /\ proc.last.fn = fn /\ proc.last.st = "ret"

\* C1 (as claimed): two sources built from the same seed and given the same
\* calls return the same samples and stand at the same stream position,
\* whatever order the operands of an expression are evaluated in.
Determinism ==
  /\ proc.pc = twin.pc
  /\ proc.last = twin.last
  /\ proc.c = twin.c

\* C2 (as claimed): for a < b, equilikely(a, b) returns an int x with
\* a <= x <= b, also when b - a + 1 is evaluated in int arithmetic.
EquilikelyRange ==
  Returned("equilikely") =>
    proc.last.a[1] <= proc.last.v /\ proc.last.v <= proc.last.a[2]

\* C3 (as claimed): for m > 0 and every draw u in [0,1), u = 0 included,
\* exponential(m) is strictly greater than 0.
ExponentialPositive ==
  Returned("exponential") => FGt(proc.last.v, 0)

\* C4: for 0 < p < 1 and a draw u in [0,1), bernoulli(p) takes one draw and
\* returns 1 when u > p and 0 when u <= p, never anything else.
BernoulliComparison ==
  Returned("bernoulli") =>
    /\ 0 < proc.last.a[1] /\ proc.last.a[1] < FP
    /\ Len(proc.last.us) = 1
    /\ proc.last.us[1] \in Grid
    /\ proc.last.v \in {0, 1}
    /\ proc.last.v = 1 <=> proc.last.us[1] > proc.last.a[1]

\* C4 witness: bernoulli returned on a draw equal to p, with p on the grid.
BernoulliAtThreshold ==
  Returned("bernoulli") /\ proc.last.us[1] = proc.last.a[1]

\* C5 (as claimed): bernoulli(p) returns 1 with probability p: of the K
\* equally spaced draws in [0,1), p * K make it return 1 (p a multiple of 1/K).
BernoulliSuccessCount ==
  (Returned("bernoulli") /\ proc.last.a[1] % Ulp = 0) =>
    Cardinality({u \in Grid : bernoulli(Scripted(<<u>>), proc.last.a[1]).v = 1}) * FP
      = proc.last.a[1] * K

\* C6 (as claimed): Poisson(m) adds variates e_i = -ln(1 - u_i) until their sum
\* is >= m and returns the largest k with e_1 + ... + e_k < m: the sum of the
\* first x variates is below m (x the value returned) and one more reaches m.
PoissonReference ==
  Returned("Poisson") =>
    /\ proc.last.v = 0 \/ FLt(proc.last.ref[1], proc.last.a[1])
    /\ ~FLt(proc.last.ref[2], proc.last.a[1])

\* C7 (as claimed): a call of Poisson with m > 0 ends after finitely many
\* draws, for every source whose draws lie in [0,1), draws of 0 included:
\* the loop `while (t < m)` is left.
PoissonReturns == (proc.pc = "poisson") ~> (proc.pc # "poisson")

\* The documented domain of each distribution function (crandom.h, NOTE).
InDomain(fn, a) ==
  CASE fn \in {"bernoulli", "geometric"} -> FLt(0, a[1]) /\ FLt(a[1], FP)
    [] fn \in {"binomial", "pascal"} -> 0 < a[1] /\ FLt(0, a[2]) /\ FLt(a[2], FP)
    [] fn = "equilikely" -> a[1] < a[2]
    [] fn = "uniform" -> FLt(a[1], a[2])
    [] fn \in {"Poisson", "exponential"} -> FLt(0, a[1])
    [] fn = "erlang" -> 0 < a[1] /\ FLt(0, a[2])
    [] fn \in {"normal", "lognormal"} -> FLt(0, a[2])
    [] fn \in {"chisquare", "student"} -> 0 < a[1]

\* C8: a distribution function called with a parameter outside its
\* documented domain aborts before its first draw: no sample is returned and
\* the source is as it was.
PreconditionAbort ==
  [][(/\ proc.pc = "idle"
      /\ proc'.pc # "idle"
      /\ proc'.last.fn \in Distributions
      /\ ~InDomain(proc'.last.fn, proc'.last.a))
     => (/\ proc'.pc = "dead"
         /\ proc'.last.st = "abort"
         /\ proc'.last.n = 0
         /\ proc'.c = proc.c)]_vars

\* C8 witness: a composite function has aborted on a parameter out of domain.
CompositeAborted ==
  /\ proc.pc = "dead"
  /\ proc.last.fn \in {"binomial", "pascal", "erlang", "lognormal", "chisquare", "student"}
  /\ proc.last.st = "abort"
  /\ ~InDomain(proc.last.fn, proc.last.a)

\* C9: next() of a dSFMT backed source returns x with 0 <= x < 1, moves the
\* engine's read index on by one (from 0 when the block was refilled), and
\* changes nothing else of the object, the handle or the heap.
NextRange ==
  [][(/\ proc.pc = "idle"
      /\ proc.c.next = "dSFMTRandomNext"
      /\ proc'.pc = "ret"
      /\ proc'.last.fn = "next")
     => (/\ 0 <= proc'.last.v /\ proc'.last.v < FP
         /\ proc'.c.dsfmt.idx
              = (IF proc.c.dsfmt.idx >= DSFMT_N64 THEN 0 ELSE proc.c.dsfmt.idx) + 1
         /\ proc'.c.dsfmt.idx \in 1..DSFMT_N64
         /\ proc'.c.next = proc.c.next
         /\ proc'.c.release = proc.c.release
         /\ proc'.h = proc.h
         /\ proc'.heap = proc.heap)]_vars

\* C9 witness: next() has refilled the block and returned its first word, 0.
NextAfterRefill ==
  /\ Returned("next")
  /\ proc.c.next = "dSFMTRandomNext"
  /\ proc.c.dsfmt.idx = 1
  /\ proc.last.v = 0

Constructors == {"dSFMTRandomNew", "dSFMTRandomNewBySeed", "dSFMTRandomNewByArray"}

\* C10: a constructor returns NULL exactly when malloc failed, whatever the
\* seed or key array; on success the engine is seeded and next and release
\* are installed; release gives the one block of the object back.
ConstructionLifecycle ==
  /\ proc.last.fn \in Constructors =>
       /\ proc.last.v = 0 <=> proc.last.alloc = "NULL"
       /\ proc.last.v = 0 => proc.h = "null" /\ proc.c = NoObject /\ proc.heap = {}
       /\ proc.last.v # 0 =>
            /\ proc.h = "live"
            /\ proc.c.next = "dSFMTRandomNext"
            /\ proc.c.release = "free"
            /\ proc.c.dsfmt.idx = DSFMT_N64
            /\ proc.c.dsfmt.key \in 0..(Period - 1)
            /\ proc.heap = {"dSFMTRandom"}
  /\ (proc.last.fn = "release" /\ proc.last.via = "free") =>
       proc.h = "freed" /\ proc.heap = {}

\* C10 witness: a source a constructor built has been released through the
\* release it installed, and its block is back with the allocator.
ReleasedOnce ==
  /\ Returned("release")
  /\ proc.last.via = "free"
  /\ proc.h = "freed"
  /\ proc.heap = {}

\* C11: binomial(n, p), pascal(n, p) and erlang(n, b) with valid parameters
\* end as n successive calls of bernoulli(p), geometric(p) and exponential(b)
\* on the same source, summed by the caller, end on the same build: with the
\* same value, from the same draws, the source at the same position.
CompoundEquivalence ==
  [][(/\ proc.pc = "idle"
      /\ proc'.pc # "idle"
      /\ proc'.last.fn \in {"binomial", "pascal", "erlang"}
      /\ InDomain(proc'.last.fn, proc'.last.a))
     => \E ub \in UB :
          LET simple == CASE proc'.last.fn = "binomial" -> "bernoulli"
                          [] proc'.last.fn = "pascal" -> "geometric"
                          [] proc'.last.fn = "erlang" -> "exponential"
              r == compoundLoop(simple, proc.c, 0, proc'.last.a[1],
                                proc'.last.a[2], 0, <<>>,
                                [NoChoice EXCEPT !.ub = ub])
          IN /\ r.st = proc'.last.st
             /\ r.st = "ret" =>
                  /\ r.v = proc'.last.v
                  /\ r.us = proc'.last.us
                  /\ r.c = proc'.c]_vars

\* C11 witness: pascal has returned a sum that is not 0 from two draws or more.
PascalCompounded ==
  /\ Returned("pascal")
  /\ proc.last.a[1] >= 2
  /\ proc.last.n = proc.last.a[1]
  /\ proc.last.v > 0

\* C12: a distribution call with valid parameters that returns has changed
\* only the position of the source in its stream (the handle, the heap and
\* the object's functions are as before, release was not called), and has
\* moved it by exactly 1 draw (bernoulli, equilikely, geometric, uniform,
\* exponential, normal, lognormal), n draws (binomial, pascal, erlang,
\* chisquare) or n + 1 draws (student), the draws being the next ones of the
\* stream in order.  Poisson takes one draw in each iteration, returns
\* without a further draw, and returns x >= 0 after x + 1 draws.
DrawFrame ==
  [][/\ (\/ proc.pc = "idle" /\ proc'.last.fn \in Distributions
         \/ proc.pc = "poisson") =>
          /\ proc'.h = proc.h
          /\ proc'.heap = proc.heap
     /\ (/\ proc.pc = "idle"
         /\ proc'.pc = "ret"
         /\ proc'.last.fn \in Distributions
         /\ InDomain(proc'.last.fn, proc'.last.a))
        => LET fn == proc'.last.fn
               n == proc'.last.a[1]
               k == CASE fn \in {"binomial", "pascal", "erlang", "chisquare"} -> n
                      [] fn = "student" -> n + 1
                      [] OTHER -> 1
           IN /\ proc'.last.n = k
              /\ drawn(proc.c, k, <<>>) = [c |-> proc'.c, us |-> proc'.last.us]
     /\ (proc.pc = "idle" /\ proc'.pc = "poisson") => proc'.c = proc.c
     /\ (proc.pc = "poisson" /\ proc'.pc = "poisson") =>
          /\ proc'.c = drawn(proc.c, 1, <<>>).c
          /\ proc.loc.n < NCap => proc'.loc.n = proc.loc.n + 1
     /\ (proc.pc = "poisson" /\ proc'.pc = "ret") =>
          /\ proc'.c = proc.c
          /\ proc'.last.v >= 0
          /\ proc'.last.n = proc'.last.v + 1]_vars

\* C12 witness: Poisson has returned a count that is not 0, on a dSFMT source.
PoissonCounted ==
  /\ Returned("Poisson")
  /\ proc.c.next = "dSFMTRandomNext"
  /\ proc.last.v >= 1
  /\ proc.last.n = proc.last.v + 1

\* C13 (as claimed): for valid parameters and every draw u with 0 <= u < 1,
\* u = 0 included, every log in geometric, pascal, exponential, erlang and
\* normal is taken of a strictly positive argument; normal, and so lognormal,
\* chisquare and student, compute from a finite t; and the demo's histogram
\* index for a sample of normal(crandom, 0, 1) lies in 0..N.
LogDomain ==
  /\ (proc.pc = "ret" /\ proc.last.st = "ret"
        /\ proc.last.fn \in {"geometric", "pascal", "exponential", "erlang"}) =>
       \A i \in 1..Len(proc.last.us) : FGt(FSub(FP, proc.last.us[i]), 0)
  /\ (proc.pc = "ret" /\ proc.last.st = "ret"
        /\ proc.last.fn \in {"normal", "lognormal", "chisquare", "student"}) =>
       \A i \in 1..Len(proc.last.us) :
         /\ FGt(normalLogArg(proc.last.us[i]), 0)
         /\ IsFin(normalT(proc.last.us[i]))
  /\ (Returned("normal") /\ proc.last.a = <<0, FP>>) =>
       /\ IsFin(proc.last.v)
       /\ histogramIndexes(proc.last.v) \subseteq 0..N
====
